---- MODULE Spec2Model ----
(***************************************************************************)
(* turbo-clip frontend: the download page (discovery, selection, job       *)
(* creation, progress stream, delivery hand-off, cancel).                  *)
(*                                                                         *)
(* The three pages DownloadPage (src/unnamed/part_003), InstagramPage and  *)
(* TikTokPage (src/frontend/src/pages/RegisterPage.jsx) share one          *)
(* controller; the model is DownloadPage extended with the carousel flow   *)
(* of InstagramPage (TikTokPage's slideshow flow is the same code).        *)
(*                                                                         *)
(* One action is one run-to-completion step of the single-threaded event   *)
(* loop: a click handler up to its first await, the continuation of an     *)
(* async function after its await, an EventSource callback, or a timer.    *)
(* React state updates made inside one step are applied together.          *)
(*                                                                         *)
(* Beside the page: downloadHelper and the api client (both in             *)
(* src/unnamed/part_006) and the AuthProvider                              *)
(* (src/frontend/src/context/AuthContext.jsx).                             *)
(***************************************************************************)
EXTENDS Integers, Sequences, FiniteSets

\* ---------------------------------------------------------------- bounds
MaxJobs == 2        \* job-creation requests issued during one page life
MaxItems == 2       \* items of a discoverable collection
MaxMedia == 1       \* media items of a carousel post
MaxArtifacts == 1   \* distinct artifact ids (download_id) the server reports
MaxCount == 1       \* largest completed / failed count in a batch event
MaxStops == 1       \* handleStop calls waiting for the cancel response
MaxCalls == 2       \* call counters saturate here ("more than once")
MaxListLen == 2     \* longest completed_downloads list of one event
MaxHandles == 2     \* distinct directory handles the user can pick
MaxPending == 2     \* smartDownload promises not yet settled

JobIds == 1..MaxJobs
VideoIds == 1..MaxItems
ArtifactIds == 1..MaxArtifacts
NoJob == 0
HandleIds == 1..MaxHandles
NoHandle == 0       \* null / undefined where a directory handle is expected

\* ------------------------------------------------------------ page state
VARIABLES
  loading,          \* useState(false)
  error,            \* useState('')
  videoInfo,        \* useState(null): TRUE when an info object is held
  carouselInfo,     \* useState(null): number of media_items, 0 when null
  selectedItemIds,  \* useState(new Set()): carousel item indices
  downloading,      \* useState(false)
  message,          \* useState(null)
  progress,         \* useState(null): status of the held progress object
  shorts,           \* useState([]): sequence of video_id
  selectedIds,      \* useState(new Set())
  hasMore,          \* useState(false)
  loadingMore,      \* useState(false)
  batchDownloading, \* useState(false)
  batchProgress,    \* useState(null)
  eventSourceRef,   \* useRef(null): job id of the referenced EventSource
  activeDownloadId, \* useRef(null)
  deliveredIdsRef,  \* useRef(new Set())
  \* ------------------------------------------------------- environment
  kind,             \* job -> "single" | "carousel" | "batch"
  phase,            \* job -> "unused" | "requesting" | "rejected" | "created"
  es,               \* job -> "none" | "open" | "closed" (its EventSource)
  nextJob,          \* next job-creation request
  stops,            \* id -> handleStop calls holding it, suspended at the
                    \* cancel await
  timers,           \* pending setTimeout(() => setProgress(null), 1500)
  infoCall,         \* handleGetInfo: "idle" | "first" | "second"
  moreCall,         \* handleLoadMore: -1 idle, else the offset it sent
  \* ------------------------------------------------------ observation
  watch,            \* which group of observers below is recording
  terminalSeen,     \* jobs whose stream processed a done / error event
  afterTerminal,    \* jobs that processed an event after a terminal one
  errHandled,       \* job -> number of onerror runs
  \* recorded only while watch = "delivery"
  smartCalls,       \* job -> artifact -> number of smartDownload calls
  repeated,         \* jobs that got an event repeating a delivered id
  \* recorded only while watch = "streams"
  superseded,       \* jobs whose open stream a later connect closed
  \* recorded only while watch = "cancel"
  stopWhileOpen,    \* jobs whose stream was open when Stop was pressed
  stopWhileReq,     \* jobs whose creation was in flight when Stop was pressed
  lateEvents,       \* jobs that processed an event after Stop was pressed
  \* recorded only while watch = "json"
  badJson,          \* jobs whose stream received a non-JSON message
  \* recorded only while watch = "failure"
  failed,           \* jobs that ended Failed
  silentFail,       \* jobs that ended Failed with no error message shown
  \* recorded while watch = "selection": the last two selection operations,
  \* each with the list and the selection it started from; while watch is
  \* "tally": the done event of a batch handled last; "delivery": the event
  \* handled last since the stream was opened; "settle": the delivery that
  \* settled last; "cancel": the cancel cleanup made last
  hist,
  \* followed only while watch = "settle"
  pending,          \* smartDownload promises not yet settled (each has a
                    \* .catch handler attached)
  \* ------------------------------------ downloadHelper (src/unnamed/part_006)
  fsApi,            \* typeof window.showDirectoryPicker === 'function'
  idb,              \* object store 'handles': set of <<key, value>>
  saved,            \* handle of the last resolved save, NoHandle after a
                    \* resolved clear
  loadOut,          \* outcome of the last loadDirectoryHandle call made
                    \* since the store last changed
  sd,               \* the smartDownload invocation in progress
  nameCall,         \* the parseFilenameFromResponse call made last
  \* ------------------------------------------------------------ page life
  mounted,          \* the page component is mounted
  \* recorded only while watch = "sent"
  cancelSent,       \* ids a cancel request was sent for
  \* ------- api client (src/unnamed/part_006) and AuthContext.jsx
  browser,          \* localStorage entries 'token' and 'user'; whether the
                    \* window is leaving for /login
  http,             \* caller -> its request through the api client
  auth              \* AuthProvider: token, user, loading, the login call

disc == <<loading, videoInfo, carouselInfo, selectedItemIds, shorts,
          selectedIds, hasMore, loadingMore, infoCall, moreCall>>
ui   == <<error, message, progress, downloading, batchDownloading,
          batchProgress>>
refs == <<eventSourceRef, activeDownloadId, deliveredIdsRef>>
env  == <<kind, phase, es, nextJob, stops, timers>>
obsEnd    == <<terminalSeen, afterTerminal>>
obsCancel == <<stopWhileOpen, stopWhileReq, lateEvents>>
obsFail   == <<failed, silentFail>>
obsDeliv  == <<smartCalls, repeated>>
obs  == <<watch, obsEnd, errHandled, obsDeliv, superseded, obsCancel,
          badJson, obsFail>>
eng  == <<fsApi, idb, saved, loadOut, sd, nameCall>>
life == <<mounted, cancelSent>>
sess == <<browser, http, auth>>
vars == <<disc, ui, refs, env, obs, hist, pending, life, sess, eng>>

NullBatch == [status |-> "null", total |-> 0, completed |-> 0, failed |-> 0]

RECURSIVE SeqToSet(_)
SeqToSet(s) == IF s = <<>> THEN {} ELSE {Head(s)} \cup SeqToSet(Tail(s))

\* items offset+1 .. offset+n of the queried collection
Page(offset, n) == [i \in 1..n |-> offset + i]

\* no smartDownload invocation in progress
IdleCall ==
  [pc |-> "idle", handle |-> NoHandle, queryOut |-> "none",
   requestOut |-> "none", requests |-> 0, verify |-> "none",
   browserDownloads |-> 0, fileCreated |-> FALSE, fileWritten |-> FALSE,
   result |-> "none"]

\* no loadDirectoryHandle call since the store last changed
NoLoad == [state |-> "none", value |-> NoHandle, opened |-> FALSE]

\* no parseFilenameFromResponse call made
NoName == [calls |-> 0]

\* downloadHelper at rest, nothing stored
InitHelper ==
  /\ idb = {} /\ saved = NoHandle
  /\ loadOut = NoLoad
  /\ sd = IdleCall
  /\ nameCall = NoName

\* the page after construction (the useState / useRef initial values)
InitPage ==
  /\ loading = FALSE /\ error = "" /\ videoInfo = FALSE /\ carouselInfo = 0
  /\ selectedItemIds = {} /\ downloading = FALSE /\ message = "null"
  /\ progress = "null" /\ shorts = <<>> /\ selectedIds = {}
  /\ hasMore = FALSE /\ loadingMore = FALSE /\ batchDownloading = FALSE
  /\ batchProgress = NullBatch
  /\ eventSourceRef = NoJob /\ activeDownloadId = NoJob
  /\ deliveredIdsRef = {}
  /\ kind = [j \in JobIds |-> "single"]
  /\ phase = [j \in JobIds |-> "unused"]
  /\ es = [j \in JobIds |-> "none"]
  /\ nextJob = 1 /\ stops = [j \in JobIds |-> 0] /\ timers = 0
  /\ infoCall = "idle" /\ moreCall = -1
  /\ smartCalls = [j \in JobIds |-> [a \in ArtifactIds |-> 0]]
  /\ repeated = {} /\ superseded = {}
  /\ stopWhileOpen = {} /\ stopWhileReq = {} /\ lateEvents = {}
  /\ terminalSeen = {} /\ afterTerminal = {} /\ badJson = {}
  /\ errHandled = [j \in JobIds |-> 0]
  /\ failed = {} /\ silentFail = {}
  /\ hist = <<>> /\ pending = 0
  /\ mounted = TRUE /\ cancelSent = {}
  /\ InitHelper

\* error texts: a server-provided detail, or the handler's fallback text
\* err.response?.data?.detail || fallback, data.error || fallback: the
\* server's text when it is given and not empty, else the fallback
OrText(given, fallback) == IF given = "" THEN fallback ELSE given
ServerTexts == {"", "detail"}

\* the selection operation op(arg) starts from the present list and
\* selection; the operation before it is remembered as well
Record(op, arg) ==
  IF watch = "selection"
  THEN (IF hist = <<>> THEN <<>> ELSE <<hist[Len(hist)]>>)
       \o <<[op |-> op, arg |-> arg, sel |-> selectedIds, items |-> shorts]>>
  ELSE hist

\* ------------------------------------------------------------- discovery
\* a reset that leaves the selection alone
resetResultsKeepsSelection ==
  /\ videoInfo' = FALSE
  /\ carouselInfo' = 0
  /\ selectedItemIds' = {}
  /\ shorts' = <<>>
  /\ selectedIds' = selectedIds
  /\ hasMore' = FALSE
  /\ message' = "null"
  /\ progress' = "null"
  /\ batchProgress' = NullBatch
  /\ error' = ""

\* a reset that leaves the message and the progress of the last job
resetResultsKeepsMessage ==
  /\ videoInfo' = FALSE
  /\ carouselInfo' = 0
  /\ selectedItemIds' = {}
  /\ shorts' = <<>>
  /\ selectedIds' = {}
  /\ hasMore' = FALSE
  /\ message' = message
  /\ progress' = progress
  /\ batchProgress' = batchProgress
  /\ error' = ""

\* resetResults(): the values every reset field takes
resetResults ==
  /\ videoInfo' = FALSE
  /\ carouselInfo' = 0
  /\ selectedItemIds' = {}
  /\ shorts' = <<>>
  /\ selectedIds' = {}
  /\ hasMore' = FALSE
  /\ message' = "null"
  /\ progress' = "null"
  /\ batchProgress' = NullBatch
  /\ error' = ""

\* handleGetInfo up to its first await; the submit button is disabled while
\* loading || downloading || batchDownloading
handleGetInfo ==
  /\ mounted
  /\ ~(loading \/ downloading \/ batchDownloading)
  /\ resetResults
  /\ loading' = TRUE
  /\ infoCall' = "first"
  /\ hist' = <<>>
  /\ UNCHANGED <<downloading, batchDownloading, loadingMore, moreCall,
                 refs, env, obs>>
  /\ UNCHANGED <<pending, life, sess, eng>>

\* the first info request fails: catch + finally
GetInfoFail ==
  /\ infoCall \in {"first", "second"}
  /\ \E d \in ServerTexts : error' = OrText(d, "Failed to fetch info")
  /\ loading' = FALSE
  /\ infoCall' = "idle"
  /\ UNCHANGED <<videoInfo, carouselInfo, selectedItemIds, shorts,
                 selectedIds, hasMore, loadingMore, moreCall, message,
                 progress, downloading, batchDownloading, batchProgress,
                 refs, env, obs, hist>>
  /\ UNCHANGED <<pending, life, sess, eng>>

\* a single-video answer (to the first request, or to the second one made
\* for a one-item channel): setVideoInfo
GetInfoVideo ==
  /\ infoCall \in {"first", "second"}
  /\ videoInfo' = TRUE
  /\ loading' = FALSE
  /\ infoCall' = "idle"
  /\ UNCHANGED <<carouselInfo, selectedItemIds, shorts, selectedIds, hasMore,
                 loadingMore, moreCall, ui, refs, env, obs, hist>>
  /\ UNCHANGED <<pending, life, sess, eng>>

\* a carousel answer: setCarouselInfo, then the effect that selects all items
GetInfoCarousel ==
  /\ infoCall \in {"first", "second"}
  /\ \E n \in 1..MaxMedia :
       /\ carouselInfo' = n
       /\ selectedItemIds' = 0..(n - 1)
  /\ loading' = FALSE
  /\ infoCall' = "idle"
  /\ UNCHANGED <<videoInfo, shorts, selectedIds, hasMore, loadingMore,
                 moreCall, ui, refs, env, obs, hist>>
  /\ UNCHANGED <<pending, life, sess, eng>>

\* a channel answer to the first request
GetInfoChannel ==
  /\ infoCall = "first"
  /\ \E n \in 0..MaxItems, more \in BOOLEAN :
       LET videos == Page(0, n) IN
       IF n = 0
       THEN /\ error' = "No shorts found on this channel"
            /\ loading' = FALSE /\ infoCall' = "idle"
            /\ UNCHANGED <<shorts, selectedIds, hasMore>>
       ELSE IF n = 1 /\ ~more
       THEN /\ infoCall' = "second"
            /\ UNCHANGED <<error, loading, shorts, selectedIds, hasMore>>
       ELSE /\ shorts' = videos
            /\ selectedIds' = SeqToSet(videos)
            /\ hasMore' = more
            /\ loading' = FALSE /\ infoCall' = "idle"
            /\ UNCHANGED error
  /\ hist' = <<>>
  /\ UNCHANGED <<videoInfo, carouselInfo, selectedItemIds, loadingMore,
                 moreCall, message, progress, downloading, batchDownloading,
                 batchProgress, refs, env, obs>>
  /\ UNCHANGED <<pending, life, sess, eng>>

\* handleLoadMore up to its await; the button is rendered inside the batch
\* section when hasMore and is disabled while loadingMore
handleLoadMore ==
  /\ mounted
  /\ Len(shorts) > 0 /\ hasMore /\ ~loadingMore
  /\ loadingMore' = TRUE
  /\ moreCall' = Len(shorts)
  /\ UNCHANGED <<loading, videoInfo, carouselInfo, selectedItemIds, shorts,
                 selectedIds, hasMore, infoCall, ui, refs, env, obs, hist>>
  /\ UNCHANGED <<pending, life, sess, eng>>

\* handleLoadMore after its await: the page is appended and selected
LoadMoreOk ==
  /\ moreCall >= 0
  /\ \E n \in 0..MaxItems, more \in BOOLEAN :
       /\ moreCall + n <= MaxItems
       /\ LET videos == Page(moreCall, n) IN
            /\ shorts' = shorts \o videos
            /\ selectedIds' = selectedIds \cup SeqToSet(videos)
            /\ hasMore' = more
  /\ loadingMore' = FALSE
  /\ moreCall' = -1
  /\ hist' = Record("load", moreCall)
  /\ UNCHANGED <<loading, videoInfo, carouselInfo, selectedItemIds, infoCall,
                 ui, refs, env, obs>>
  /\ UNCHANGED <<pending, life, sess, eng>>

LoadMoreFail ==
  /\ moreCall >= 0
  /\ \E d \in ServerTexts : error' = OrText(d, "Failed to load more shorts")
  /\ loadingMore' = FALSE
  /\ moreCall' = -1
  /\ UNCHANGED <<loading, videoInfo, carouselInfo, selectedItemIds, shorts,
                 selectedIds, hasMore, infoCall, message, progress,
                 downloading, batchDownloading, batchProgress, refs, env, obs,
                 hist>>
  /\ UNCHANGED <<pending, life, sess, eng>>

\* ------------------------------------------------------------- selection
selectedCount == Cardinality(selectedIds)

\* an updater that only ever adds the id
ToggleSelectedAddsOnly(prev, videoId) == prev \cup {videoId}

\* the updater of toggleSelect: delete the id when present, add it otherwise
ToggleSelected(prev, videoId) ==
  IF videoId \in prev THEN prev \ {videoId} ELSE prev \cup {videoId}

\* toggleSelect(videoId), whatever its argument
toggleSelect(videoId) ==
  /\ selectedIds' = ToggleSelected(selectedIds, videoId)
  /\ hist' = Record("toggle", videoId)
  /\ UNCHANGED <<loading, videoInfo, carouselInfo, selectedItemIds, shorts,
                 hasMore, loadingMore, infoCall, moreCall, ui, refs, env, obs>>
  /\ UNCHANGED <<pending, life, sess, eng>>

\* a click on the row of a listed item: onClick={() => toggleSelect(s.video_id)}
ItemClick(videoId) ==
  /\ mounted
  /\ videoId \in SeqToSet(shorts)
  /\ toggleSelect(videoId)

\* a selectAll that selects the first item only
selectAllFirstOnly ==
  /\ mounted
  /\ Len(shorts) > 0 /\ selectedCount # Len(shorts)
  /\ selectedIds' = {shorts[1]}
  /\ hist' = Record("selectAll", 0)
  /\ UNCHANGED <<loading, videoInfo, carouselInfo, selectedItemIds, shorts,
                 hasMore, loadingMore, infoCall, moreCall, ui, refs, env, obs>>
  /\ UNCHANGED <<pending, life, sess, eng>>

\* the Select All button is disabled when selectedCount === shorts.length
selectAll ==
  /\ mounted
  /\ Len(shorts) > 0 /\ selectedCount # Len(shorts)
  /\ selectedIds' = SeqToSet(shorts)
  /\ hist' = Record("selectAll", 0)
  /\ UNCHANGED <<loading, videoInfo, carouselInfo, selectedItemIds, shorts,
                 hasMore, loadingMore, infoCall, moreCall, ui, refs, env, obs>>
  /\ UNCHANGED <<pending, life, sess, eng>>

\* the Deselect All button is disabled when selectedCount === 0
deselectAll ==
  /\ mounted
  /\ Len(shorts) > 0 /\ selectedCount # 0
  /\ selectedIds' = {}
  /\ hist' = Record("deselectAll", 0)
  /\ UNCHANGED <<loading, videoInfo, carouselInfo, selectedItemIds, shorts,
                 hasMore, loadingMore, infoCall, moreCall, ui, refs, env, obs>>
  /\ UNCHANGED <<pending, life, sess, eng>>

toggleItemSelect(index) ==
  /\ mounted
  /\ index \in 0..(carouselInfo - 1)
  /\ selectedItemIds' = IF index \in selectedItemIds
                        THEN selectedItemIds \ {index}
                        ELSE selectedItemIds \cup {index}
  /\ UNCHANGED <<loading, videoInfo, carouselInfo, shorts, selectedIds,
                 hasMore, loadingMore, infoCall, moreCall, ui, refs, env, obs,
                 hist>>
  /\ UNCHANGED <<pending, life, sess, eng>>

\* ------------------------------------------------------ progress streams
Min(a, b) == IF a < b THEN a ELSE b

\* EventSource.close() on the referenced object, if any:
\* if (eventSourceRef.current) eventSourceRef.current.close()
CloseStream(streams, ref) ==
  IF ref = NoJob THEN streams ELSE [streams EXCEPT ![ref] = "closed"]

OpenStreams == {j \in JobIds : es[j] = "open"}

\* connectToProgress: close the referenced stream, create the new one
connectToProgress(downloadId) ==
  /\ es' = [CloseStream(es, eventSourceRef) EXCEPT ![downloadId] = "open"]
  /\ eventSourceRef' = downloadId
  /\ UNCHANGED deliveredIdsRef

\* a connect that opens the stream and keeps the set of the job before
connectToCarouselProgressKeepsSeen(downloadId) ==
  /\ es' = [CloseStream(es, eventSourceRef) EXCEPT ![downloadId] = "open"]
  /\ deliveredIdsRef' = deliveredIdsRef
  /\ eventSourceRef' = downloadId

connectToCarouselProgress(downloadId) ==
  /\ es' = [CloseStream(es, eventSourceRef) EXCEPT ![downloadId] = "open"]
  /\ deliveredIdsRef' = {}
  /\ eventSourceRef' = downloadId

\* connectToBatchProgress without the close of its first line
connectToBatchProgressNoClose(batchId) ==
  /\ es' = [es EXCEPT ![batchId] = "open"]
  /\ deliveredIdsRef' = {}
  /\ eventSourceRef' = batchId

connectToBatchProgress(batchId) ==
  /\ es' = [CloseStream(es, eventSourceRef) EXCEPT ![batchId] = "open"]
  /\ deliveredIdsRef' = {}
  /\ eventSourceRef' = batchId

\* the test of the delivery loop without its look at the seen-set
ShouldDeliverIgnoringSeen(id, seen) == id # 0

\* the test of the delivery loop: dl.download_id && !deliveredIdsRef.has(id)
ShouldDeliver(id, seen) == id # 0 /\ id \notin seen

\* the delivery loop over completed_downloads: the ids smartDownload is
\* called with, in order (0 stands for an entry without download_id)
RECURSIVE DeliverLoop(_, _)
DeliverLoop(downloads, seen) ==
  IF downloads = <<>> THEN <<>>
  ELSE LET id == Head(downloads) IN
       IF ShouldDeliver(id, seen)
       THEN <<id>> \o DeliverLoop(Tail(downloads), seen \cup {id})
       ELSE DeliverLoop(Tail(downloads), seen)

RECURSIVE Occurrences(_, _)
Occurrences(s, x) ==
  IF s = <<>> THEN 0
  ELSE (IF Head(s) = x THEN 1 ELSE 0) + Occurrences(Tail(s), x)

\* smartDownload called once for every id of calls, on behalf of job j
Delivered(j, calls) ==
  IF watch = "delivery"
  THEN [smartCalls EXCEPT ![j] =
          [a \in ArtifactIds |->
             Min(MaxCalls, smartCalls[j][a] + Occurrences(calls, a))]]
  ELSE smartCalls

\* an event of job j carries an id this job's stream delivered before
Repeats(j, downloads) ==
  IF watch = "delivery"
     /\ \E i \in 1..Len(downloads) : downloads[i] \in deliveredIdsRef
  THEN repeated \cup {j} ELSE repeated

\* the completed_downloads lists an event can carry
DownloadLists == UNION {[1..n -> 0..MaxArtifacts] : n \in 0..MaxListLen}

\* the event a batch or carousel handler has just processed; ids are the
\* download_ids of its completed_downloads, new those not delivered before
EventSeen(j, status, downloads, c, f, t) ==
  CASE watch = "tally" /\ status = "done" ->
         <<[op |-> "event", job |-> j, status |-> status, completed |-> c,
            failed |-> f, total |-> t]>>
    [] watch = "delivery" ->
         <<[op |-> "event", job |-> j, ids |-> SeqToSet(downloads) \ {0},
            new |-> (SeqToSet(downloads) \ {0}) \ deliveredIdsRef]>>
    [] OTHER -> hist

\* a handler that leaves the loop out when the event ends the job
EventCallsUnlessTerminal(status, downloads, seen) ==
  IF status \in {"done", "error"} THEN <<>> ELSE DeliverLoop(downloads, seen)

\* the delivery loop stands before the test of the status: it runs for
\* every event, the terminal ones included
EventCalls(status, downloads, seen) == DeliverLoop(downloads, seen)

\* n smartDownload calls have been made, their promises are not settled
Launched(n) == IF watch = "settle" THEN pending + n ELSE pending

\* what an event handler that got past JSON.parse records about job j
Processed(j, terminal) ==
  /\ afterTerminal' = IF j \in terminalSeen THEN afterTerminal \cup {j}
                      ELSE afterTerminal
  /\ terminalSeen' = IF terminal THEN terminalSeen \cup {j} ELSE terminalSeen
  /\ lateEvents' = IF watch = "cancel" /\ j \in stopWhileOpen
                   THEN lateEvents \cup {j} ELSE lateEvents

\* job j ended Failed while the page shows the error text shown
EndedFailed(j, shown) ==
  IF watch = "failure"
  THEN /\ failed' = failed \cup {j}
       /\ silentFail' = IF shown = "" THEN silentFail \cup {j} ELSE silentFail
  ELSE UNCHANGED obsFail

\* ------------------------------------------------------------ job creation
\* the creation request of a new job goes out
Request(k) ==
  /\ nextJob <= MaxJobs
  /\ kind' = [kind EXCEPT ![nextJob] = k]
  /\ phase' = [phase EXCEPT ![nextJob] = "requesting"]
  /\ nextJob' = nextJob + 1

\* handleDownload up to its await; both buttons are disabled while downloading
handleDownload ==
  /\ mounted
  /\ videoInfo /\ ~downloading
  /\ downloading' = TRUE
  /\ error' = ""
  /\ message' = "null"
  /\ progress' = "waiting"
  /\ Request("single")
  /\ UNCHANGED <<disc, batchDownloading, batchProgress, refs, es, stops,
                 timers, obs>>
  /\ UNCHANGED <<hist, pending, life, sess, eng>>

\* handleDownloadCarousel up to its await
handleDownloadCarousel ==
  /\ mounted
  /\ carouselInfo > 0 /\ ~downloading
  /\ selectedItemIds # {}
  /\ downloading' = TRUE
  /\ error' = ""
  /\ message' = "null"
  /\ progress' = "waiting"
  /\ Request("carousel")
  /\ UNCHANGED <<disc, batchDownloading, batchProgress, refs, es, stops,
                 timers, obs>>
  /\ UNCHANGED <<hist, pending, life, sess, eng>>

\* a filter that lets every listed item through
SelectedAll == shorts

\* shorts.filter((s) => selectedIds.has(s.video_id))
Selected == SelectSeq(shorts, LAMBDA v : v \in selectedIds)

\* s.url of the listed item with id v
Url(v) == <<"url", v>>

\* const videoUrls = selected.map((s) => s.url)
VideoUrls == [i \in 1..Len(Selected) |-> Url(Selected[i])]

\* the call of handleDownloadAll made last: whether it posted a request,
\* the video_urls of the request, the list and the selection it started from
RequestSeen(posted, urls) ==
  IF watch = "request"
  THEN <<[op |-> "downloadAll", posted |-> posted, video_urls |-> urls,
          items |-> shorts, sel |-> selectedIds]>>
  ELSE hist

\* handleDownloadAll called with none of the listed items selected:
\* if (selected.length === 0) return
handleDownloadAllNothing ==
  /\ mounted
  /\ Len(Selected) = 0
  /\ hist' = RequestSeen(FALSE, <<>>)
  /\ UNCHANGED <<disc, ui, refs, env, obs, pending, life, sess, eng>>

\* handleDownloadAll up to its await; the button is disabled while
\* batchDownloading || selectedCount === 0
handleDownloadAll ==
  /\ mounted
  /\ Len(shorts) > 0 /\ ~batchDownloading /\ selectedCount # 0
  /\ Len(Selected) # 0
  /\ batchDownloading' = TRUE
  /\ error' = ""
  /\ batchProgress' = [status |-> "waiting", total |-> Len(Selected),
                        completed |-> 0, failed |-> 0]
  /\ Request("batch")
  /\ hist' = RequestSeen(TRUE, VideoUrls)
  /\ UNCHANGED <<disc, message, progress, downloading, refs, es, stops,
                 timers, obs>>
  /\ UNCHANGED <<pending, life, sess, eng>>

\* the creation call of job j succeeded: the handler resumes after its await
CreateOk(j) ==
  /\ phase[j] = "requesting"
  /\ phase' = [phase EXCEPT ![j] = "created"]
  /\ activeDownloadId' = j
  /\ CASE kind[j] = "single"   -> connectToProgress(j)
       [] kind[j] = "carousel" -> connectToCarouselProgress(j)
       [] kind[j] = "batch"    -> connectToBatchProgress(j)
  /\ superseded' = IF watch = "streams" /\ eventSourceRef \in OpenStreams
                   THEN superseded \cup {eventSourceRef} ELSE superseded
  /\ hist' = IF watch = "delivery" THEN <<>> ELSE hist
  /\ UNCHANGED <<disc, ui, kind, nextJob, stops, timers, watch, obsEnd,
                 errHandled, obsDeliv, obsCancel, badJson, obsFail>>
  /\ UNCHANGED <<pending, life, sess, eng>>

\* the fallback text of each creation handler's catch block
CreateFallback(k) ==
  CASE k = "single"   -> "Download failed"
    [] k = "carousel" -> "Failed to start carousel download"
    [] k = "batch"    -> "Failed to start batch download"

\* a catch block that shows the error but leaves the flag and the progress
CreateCatchKeepsBusy(k, text) ==
  /\ error' = text
  /\ UNCHANGED <<downloading, progress, batchDownloading, batchProgress>>
  /\ UNCHANGED <<es, refs>>

\* what the catch block of the creation handler of kind k sets
CreateCatch(k, text) ==
  /\ error' = text
  /\ IF k = "batch"
     THEN /\ batchDownloading' = FALSE
          /\ batchProgress' = NullBatch
          /\ UNCHANGED <<downloading, progress>>
     ELSE /\ downloading' = FALSE
          /\ progress' = "null"
          /\ UNCHANGED <<batchDownloading, batchProgress>>
  /\ UNCHANGED <<es, refs>>

\* the creation call of job j was rejected
CreateFail(j) ==
  /\ phase[j] = "requesting"
  /\ phase' = [phase EXCEPT ![j] = "rejected"]
  /\ \E d \in ServerTexts :
       /\ CreateCatch(kind[j], OrText(d, CreateFallback(kind[j])))
       /\ EndedFailed(j, OrText(d, CreateFallback(kind[j])))
  /\ UNCHANGED <<disc, message, kind, nextJob, stops, timers, watch,
                 obsDeliv, superseded, obsEnd, errHandled, obsCancel, badJson>>
  /\ UNCHANGED <<hist, pending, life, sess, eng>>

\* ------------------------------------------------------- stream callbacks
\* a close() that leaves the stream of job j as it is
esCloseLeavesOpen(j) == es

\* es.close() inside a callback of the stream of job j
esClose(j) == [es EXCEPT ![j] = "closed"]

\* a message that is not JSON: JSON.parse throws at the top of onmessage,
\* the callback ends there and nothing of the page is updated
BadMessage(j) ==
  /\ es[j] = "open"
  /\ badJson' = IF watch = "json" THEN badJson \cup {j} ELSE badJson
  /\ UNCHANGED <<disc, ui, refs, env, watch, obsDeliv, superseded, obsEnd,
                 errHandled, obsCancel, obsFail>>
  /\ UNCHANGED <<hist, pending, life, sess, eng>>

\* a done branch that keeps the stream and its reference
DoneBranchKeepsStream(j, text) ==
  /\ progress' = "done"
  /\ downloading' = FALSE
  /\ message' = text
  /\ timers' = timers + 1
  /\ UNCHANGED <<es, eventSourceRef, error, obsFail>>

\* the done branch of the single and the carousel streams
DoneBranch(j, text) ==
  /\ progress' = "done"
  /\ es' = esClose(j)
  /\ eventSourceRef' = NoJob
  /\ downloading' = FALSE
  /\ message' = text
  /\ timers' = timers + 1
  /\ UNCHANGED <<error, obsFail>>

\* the error branch of the single and the carousel streams
ErrorBranch(j, text) ==
  /\ es' = esClose(j)
  /\ eventSourceRef' = NoJob
  /\ downloading' = FALSE
  /\ error' = text
  /\ progress' = "null"
  /\ EndedFailed(j, text)
  /\ UNCHANGED <<message, timers>>

\* an event with another status: setProgress(data) only
ActiveBranch ==
  /\ progress' = "active"
  /\ UNCHANGED <<error, message, downloading, es, eventSourceRef, timers,
                 obsFail>>

\* connectToProgress es.onmessage; id = 0 stands for no download_id
ProgressMessage(j) ==
  /\ es[j] = "open" /\ kind[j] = "single"
  /\ \E status \in {"active", "done", "error"}, id \in 0..MaxArtifacts,
        d \in ServerTexts :
       /\ Processed(j, status # "active")
       /\ CASE status = "active" ->
                 ActiveBranch /\ UNCHANGED smartCalls
            [] status = "done" ->
                 /\ DoneBranch(j, "downloaded")
                 /\ smartCalls' = IF id # 0 THEN Delivered(j, <<id>>)
                                  ELSE smartCalls
            [] status = "error" ->
                 /\ ErrorBranch(j, OrText(d, "Download failed"))
                 /\ UNCHANGED smartCalls
       /\ pending' = IF status = "done" /\ id # 0 THEN Launched(1)
                     ELSE pending
       /\ pending' <= MaxPending
  /\ UNCHANGED <<disc, batchDownloading, batchProgress, activeDownloadId,
                 deliveredIdsRef, kind, phase, nextJob, stops, watch,
                 repeated, superseded, errHandled, stopWhileOpen,
                 stopWhileReq, badJson>>
  /\ UNCHANGED <<hist, life, sess, eng>>

\* connectToCarouselProgress es.onmessage
CarouselMessage(j) ==
  /\ es[j] = "open" /\ kind[j] = "carousel"
  /\ \E status \in {"active", "done", "error"}, downloads \in DownloadLists,
        d \in ServerTexts :
       LET calls == EventCalls(status, downloads, deliveredIdsRef) IN
       /\ Processed(j, status # "active")
       /\ deliveredIdsRef' = deliveredIdsRef \cup SeqToSet(calls)
       /\ smartCalls' = Delivered(j, calls)
       /\ repeated' = Repeats(j, downloads)
       /\ CASE status = "active" -> ActiveBranch
            [] status = "done" -> DoneBranch(j, "saved")
            [] status = "error" ->
                 ErrorBranch(j, OrText(d, "Carousel download failed"))
       /\ pending' = Launched(Len(calls))
       /\ pending' <= MaxPending
       /\ hist' = EventSeen(j, status, downloads, 0, 0, 0)
  /\ UNCHANGED <<disc, batchDownloading, batchProgress, activeDownloadId,
                 kind, phase, nextJob, stops, watch, superseded, errHandled,
                 stopWhileOpen, stopWhileReq, badJson>>
  /\ UNCHANGED <<life, sess, eng>>

\* connectToBatchProgress es.onmessage
BatchMessage(j) ==
  /\ es[j] = "open" /\ kind[j] = "batch"
  /\ \E status \in {"active", "done", "error"}, downloads \in DownloadLists,
        c \in 0..MaxCount, f \in 0..MaxCount, t \in 1..MaxItems :
       LET calls == EventCalls(status, downloads, deliveredIdsRef) IN
       /\ Processed(j, status # "active")
       /\ batchProgress' = [status |-> status, total |-> t, completed |-> c,
                            failed |-> f]
       /\ pending' = Launched(Len(calls))
       /\ pending' <= MaxPending
       /\ hist' = EventSeen(j, status, downloads, c, f, t)
       /\ deliveredIdsRef' = deliveredIdsRef \cup SeqToSet(calls)
       /\ smartCalls' = Delivered(j, calls)
       /\ repeated' = Repeats(j, downloads)
       /\ IF status \in {"done", "error"}
          THEN /\ es' = esClose(j)
               /\ eventSourceRef' = NoJob
               /\ batchDownloading' = FALSE
          ELSE UNCHANGED <<es, eventSourceRef, batchDownloading>>
       /\ IF status = "error" THEN EndedFailed(j, error)
          ELSE UNCHANGED obsFail
  /\ UNCHANGED <<disc, error, message, progress, downloading,
                 activeDownloadId, kind, phase, nextJob, stops, timers, watch,
                 superseded, errHandled, stopWhileOpen, stopWhileReq,
                 badJson>>
  /\ UNCHANGED <<life, sess, eng>>

\* a .catch handler that ends the job as failed
SmartDownloadCatchFailsJob ==
  /\ error' = "Download failed"
  /\ downloading' = FALSE /\ batchDownloading' = FALSE
  /\ UNCHANGED <<message, progress, batchProgress, refs, es>>

\* .catch((err) => console.warn(...)): the rejection is logged, nothing of
\* the page is touched
SmartDownloadCatch == UNCHANGED <<ui, refs, es>>

\* a smartDownload promise settles: resolved, or rejected and caught by the
\* .catch handler attached to it
SmartDownloadSettles ==
  /\ pending > 0
  /\ pending' = pending - 1
  /\ \E ok \in BOOLEAN :
       /\ IF ok THEN UNCHANGED <<ui, refs, es>> ELSE SmartDownloadCatch
       /\ hist' = <<[op |-> "settled", ok |-> ok]>>
  /\ UNCHANGED <<disc, kind, phase, nextJob, stops, timers, obs, life, sess, eng>>

\* es.onerror of connectToProgress and connectToCarouselProgress
ProgressError(j) ==
  /\ es[j] = "open" /\ kind[j] \in {"single", "carousel"}
  /\ es' = esClose(j)
  /\ eventSourceRef' = NoJob
  /\ downloading' = FALSE
  /\ error' = "Lost connection to download progress"
  /\ progress' = "null"
  /\ errHandled' = [errHandled EXCEPT ![j] = Min(MaxCalls, @ + 1)]
  /\ EndedFailed(j, error')
  /\ UNCHANGED <<disc, message, batchDownloading, batchProgress,
                 activeDownloadId, deliveredIdsRef, kind, phase, nextJob,
                 stops, timers, watch, obsDeliv, superseded, obsEnd,
                 obsCancel, badJson>>
  /\ UNCHANGED <<hist, pending, life, sess, eng>>

\* es.onerror of connectToBatchProgress
BatchError(j) ==
  /\ es[j] = "open" /\ kind[j] = "batch"
  /\ es' = esClose(j)
  /\ eventSourceRef' = NoJob
  /\ batchDownloading' = FALSE
  /\ error' = "Lost connection to batch progress"
  /\ errHandled' = [errHandled EXCEPT ![j] = Min(MaxCalls, @ + 1)]
  /\ EndedFailed(j, error')
  /\ UNCHANGED <<disc, message, progress, downloading, batchProgress,
                 activeDownloadId, deliveredIdsRef, kind, phase, nextJob,
                 stops, timers, watch, obsDeliv, superseded, obsEnd,
                 obsCancel, badJson>>
  /\ UNCHANGED <<hist, pending, life, sess, eng>>

\* setTimeout(() => setProgress(null), 1500) fires
TimerFire ==
  /\ timers > 0
  /\ timers' = timers - 1
  /\ progress' = "null"
  /\ UNCHANGED <<disc, error, message, downloading, batchDownloading,
                 batchProgress, refs, kind, phase, es, nextJob, stops, obs>>
  /\ UNCHANGED <<hist, pending, life, sess, eng>>

\* ------------------------------------------------------------------ cancel
\* the Stop button of the panel of a job of kind k is rendered
StopShownFor(k) ==
  IF k = "batch" THEN batchProgress.status # "null" /\ batchDownloading
  ELSE progress # "null" /\ downloading

\* either Stop button is rendered
StopShown == StopShownFor("single") \/ StopShownFor("batch")

RECURSIVE SumUpTo(_, _)
SumUpTo(f, n) == IF n = 0 THEN 0 ELSE f[n] + SumUpTo(f, n - 1)

\* handleStop calls suspended at their await
PendingStops == SumUpTo(stops, MaxJobs)

\* the cancel cleanup for id, made after the cancel call ended ok or not
StopSeen(id, ok) ==
  IF watch = "cancel" THEN <<[op |-> "stop", id |-> id, ok |-> ok]>> ELSE hist

\* api.post(`/download/cancel/${id}`) went out
CancelSent(id) == IF watch = "sent" THEN cancelSent \cup {id} ELSE cancelSent

\* handleStop after the cancel call: close, forget the job, reset the flags
StopCleanup ==
  /\ es' = CloseStream(es, eventSourceRef)
  /\ eventSourceRef' = NoJob
  /\ activeDownloadId' = NoJob
  /\ downloading' = FALSE
  /\ batchDownloading' = FALSE
  /\ progress' = "null"
  /\ batchProgress' = NullBatch

\* handleStop up to its await (with no held id it runs to its end at once)
handleStop ==
  /\ mounted
  /\ StopShown
  /\ IF watch = "cancel"
     THEN /\ stopWhileOpen' =
               stopWhileOpen \cup {j \in OpenStreams : StopShownFor(kind[j])}
          /\ stopWhileReq' =
               stopWhileReq \cup {j \in JobIds : /\ phase[j] = "requesting"
                                                  /\ StopShownFor(kind[j])}
     ELSE UNCHANGED <<stopWhileOpen, stopWhileReq>>
  /\ IF activeDownloadId # NoJob
     THEN /\ PendingStops < MaxStops
          /\ stops' = [stops EXCEPT ![activeDownloadId] = @ + 1]
          /\ cancelSent' = CancelSent(activeDownloadId)
          /\ UNCHANGED <<ui, refs, es, hist>>
     ELSE /\ StopCleanup
          /\ hist' = StopSeen(NoJob, TRUE)
          /\ UNCHANGED <<stops, error, message, deliveredIdsRef, cancelSent>>
  /\ UNCHANGED <<disc, kind, phase, nextJob, timers, watch, obsDeliv,
                 superseded, obsEnd, errHandled, lateEvents, badJson,
                 obsFail>>
  /\ UNCHANGED <<pending, mounted, sess, eng>>

\* a handler that goes on to the cleanup only when the cancel call was ok
AfterCancelRethrows(ok) ==
  IF ok THEN StopCleanup
  ELSE UNCHANGED <<es, eventSourceRef, activeDownloadId, downloading,
                   batchDownloading, progress, batchProgress>>

\* try { await api.post(`/download/cancel/${id}`); } catch {}: the cleanup
\* follows whether the call was ok or not
AfterCancel(ok) == StopCleanup

\* the cancel call for id returned: handleStop resumes
StopResume(id) ==
  /\ stops[id] > 0
  /\ stops' = [stops EXCEPT ![id] = @ - 1]
  /\ \E ok \in BOOLEAN :
       /\ AfterCancel(ok)
       /\ hist' = StopSeen(id, ok)
  /\ UNCHANGED <<disc, error, message, deliveredIdsRef, kind, phase, nextJob,
                 timers, obs>>
  /\ UNCHANGED <<pending, life, sess, eng>>

\* ----------------------------------------------------------------- unmount
\* the cleanup of the mount effect, run when the page is left:
\* if (eventSourceRef.current) eventSourceRef.current.close().  Nothing else
\* is stopped: calls in flight resume, timers fire.
Unmount ==
  /\ mounted
  /\ mounted' = FALSE
  /\ es' = CloseStream(es, eventSourceRef)
  /\ UNCHANGED <<disc, ui, refs, kind, phase, nextJob, stops, timers, obs,
                 hist, pending, cancelSent, sess, eng>>

\* ------------------------------------------- directory handle store (IndexedDB)
dl == <<disc, ui, refs, env, obs, hist, pending, life>>
page == <<dl, sess>>

\* const HANDLE_KEY = 'downloadDir'
HANDLE_KEY == "downloadDir"

\* objectStore.put(value, key): the record under key is replaced
IdbPut(db, key, value) == {r \in db : r[1] # key} \cup {<<key, value>>}

\* objectStore.delete(key)
IdbDelete(db, key) == {r \in db : r[1] # key}

\* objectStore.get(key): undefined (NoHandle here) when there is no record
IdbGet(db, key) ==
  IF \E r \in db : r[1] = key
  THEN (CHOOSE r \in db : r[1] = key)[2]
  ELSE NoHandle

\* how a call on the store can go: the database does not open (openDB
\* rejects), the transaction or its request fails, or all is well
StoreOutcomes == {"ok", "openFail", "txError"}

\* saveDirectoryHandle(handle), called by handleChooseFolder with the handle
\* the directory picker returned; the promise rejects unless the put went
\* through
saveDirectoryHandle(handle) ==
  /\ fsApi
  /\ \E r \in StoreOutcomes :
       IF r = "ok"
       THEN /\ idb' = IdbPut(idb, HANDLE_KEY, handle)
            /\ saved' = handle
            /\ loadOut' = NoLoad
       ELSE UNCHANGED <<idb, saved, loadOut>>
  /\ UNCHANGED <<nameCall, fsApi, sd, page>>

\* clearDirectoryHandle(), called by handleClearFolder
clearDirectoryHandle ==
  /\ fsApi
  /\ \E r \in StoreOutcomes :
       IF r = "ok"
       THEN /\ idb' = IdbDelete(idb, HANDLE_KEY)
            /\ saved' = NoHandle
            /\ loadOut' = NoLoad
       ELSE UNCHANGED <<idb, saved, loadOut>>
  /\ UNCHANGED <<nameCall, fsApi, sd, page>>

\* loadDirectoryHandle(): a failed openDB is caught and gives null; the
\* promise of the get request is returned without await, so its rejection
\* is not caught; req.result || null otherwise
loadDirectoryHandle(r, db) ==
  CASE r = "openFail" ->
         [state |-> "returned", value |-> NoHandle, opened |-> FALSE]
    [] r = "txError" ->
         [state |-> "rejected", value |-> NoHandle, opened |-> TRUE]
    [] r = "ok" ->
         [state |-> "returned", value |-> IdbGet(db, HANDLE_KEY),
          opened |-> TRUE]

\* the settings page loads the handle when it mounts
SettingsLoad ==
  /\ fsApi
  /\ \E r \in StoreOutcomes : loadOut' = loadDirectoryHandle(r, idb)
  /\ UNCHANGED <<nameCall, fsApi, idb, saved, sd, page>>

\* ----------------------------------------------------------- smartDownload
\* what queryPermission / requestPermission can answer, or they throw
PermissionAnswers == {"granted", "denied", "prompt", "throw"}

\* a comparison that takes everything but 'denied' for a grant
PermissionGrantedUnlessDenied(answer) == answer \notin {"denied", "throw"}

\* (await handle.queryPermission(opts)) === 'granted'
PermissionGranted(answer) == answer = "granted"

\* a triggerBrowserDownload that clicks nothing
triggerBrowserDownloadNothing(s) == s

\* triggerBrowserDownload(downloadId): one click on a download link
triggerBrowserDownload(s) ==
  [s EXCEPT !.browserDownloads = Min(MaxCalls, @ + 1)]

\* the last two lines of smartDownload
Fallback(s) ==
  [triggerBrowserDownload(s) EXCEPT !.pc = "done", !.result = "browser"]

\* smartDownload(downloadId, suggestedName) up to its first await; without
\* the File System Access API it runs to its end at once
smartDownload ==
  /\ sd.pc \in {"idle", "done"}
  /\ sd' = IF fsApi THEN [IdleCall EXCEPT !.pc = "load"]
           ELSE Fallback(IdleCall)
  /\ UNCHANGED <<nameCall, fsApi, idb, saved, loadOut, page>>

\* await loadDirectoryHandle() returned or threw (outside the try block)
SdLoad ==
  /\ sd.pc = "load"
  /\ \E r \in StoreOutcomes :
       LET out == loadDirectoryHandle(r, idb) IN
       /\ loadOut' = out
       /\ sd' = IF out.state = "rejected"
                THEN [sd EXCEPT !.pc = "done", !.result = "rejected"]
                ELSE IF out.value = NoHandle THEN Fallback(sd)
                ELSE [sd EXCEPT !.pc = "query", !.handle = out.value]
  /\ UNCHANGED <<nameCall, fsApi, idb, saved, page>>

\* verifyHandlePermission: the answer of queryPermission
SdQuery ==
  /\ sd.pc = "query"
  /\ \E a \in PermissionAnswers :
       LET s == [sd EXCEPT !.queryOut = a] IN
       sd' = IF a = "throw" THEN Fallback([s EXCEPT !.verify = "denied"])
             ELSE IF PermissionGranted(a)
             THEN [s EXCEPT !.verify = "granted", !.pc = "fetch"]
             ELSE [s EXCEPT !.requests = Min(MaxCalls, @ + 1),
                            !.pc = "request"]
  /\ UNCHANGED <<nameCall, fsApi, idb, saved, loadOut, page>>

\* verifyHandlePermission: the answer of requestPermission
SdRequest ==
  /\ sd.pc = "request"
  /\ \E a \in PermissionAnswers :
       LET s == [sd EXCEPT !.requestOut = a] IN
       sd' = IF a # "throw" /\ PermissionGranted(a)
             THEN [s EXCEPT !.verify = "granted", !.pc = "fetch"]
             ELSE Fallback([s EXCEPT !.verify = "denied"])
  /\ UNCHANGED <<nameCall, fsApi, idb, saved, loadOut, page>>

\* streamToDirectory: fetch rejects, the response is not ok, or
\* parseFilenameFromResponse throws (decodeURIComponent): all caught by
\* smartDownload
SdFetch ==
  /\ sd.pc = "fetch"
  /\ \E r \in {"ok", "notOk", "throw", "badName"} :
       sd' = IF r = "ok" THEN [sd EXCEPT !.pc = "getFile"] ELSE Fallback(sd)
  /\ UNCHANGED <<nameCall, fsApi, idb, saved, loadOut, page>>

\* dirHandle.getFileHandle(filename, { create: true })
SdGetFile ==
  /\ sd.pc = "getFile"
  /\ \E ok \in BOOLEAN :
       sd' = IF ok THEN [sd EXCEPT !.fileCreated = TRUE, !.pc = "writable"]
             ELSE Fallback(sd)
  /\ UNCHANGED <<nameCall, fsApi, idb, saved, loadOut, page>>

\* fileHandle.createWritable()
SdWritable ==
  /\ sd.pc = "writable"
  /\ \E ok \in BOOLEAN :
       sd' = IF ok THEN [sd EXCEPT !.pc = "pipe"] ELSE Fallback(sd)
  /\ UNCHANGED <<nameCall, fsApi, idb, saved, loadOut, page>>

\* response.body.pipeTo(writable), then return { method: 'fs-api' }
SdPipe ==
  /\ sd.pc = "pipe"
  /\ \E ok \in BOOLEAN :
       sd' = IF ok
             THEN [sd EXCEPT !.fileWritten = TRUE, !.pc = "done",
                             !.result = "fs-api"]
             ELSE Fallback(sd)
  /\ UNCHANGED <<nameCall, fsApi, idb, saved, loadOut, page>>

\* ---------------------------------------------------------------- file names
\* A string is a sequence of characters; a character is a one-letter TLA+
\* string, "eacute" stands for the one character U+00E9.
FILENAME_EQ == <<"f", "i", "l", "e", "n", "a", "m", "e", "=">>
FILENAME_STAR == <<"f", "i", "l", "e", "n", "a", "m", "e", "*", "=">>
UTF8_TAG == <<"U", "T", "F", "-", "8", "'", "'">>
UTF8_TAG_LOWER == <<"u", "t", "f", "-", "8", "'", "'">>
ATTACHMENT == <<"a", "t", "t", "a", "c", "h", "m", "e", "n", "t">>
DQUOTE == "\""

\* the i flag of both patterns: letters compare in lower case
Lower(c) ==
  CASE c = "U" -> "u" [] c = "T" -> "t" [] c = "F" -> "f" [] OTHER -> c

\* pat stands in str at position p, case ignored
MatchesAt(str, pat, p) ==
  /\ p + Len(pat) - 1 <= Len(str)
  /\ \A i \in 1..Len(pat) : Lower(str[p + i - 1]) = Lower(pat[i])

Rest(str, p) == SubSeq(str, p, Len(str))

SetMin(S) == CHOOSE x \in S : \A y \in S : x <= y

NoMatch == [found |-> FALSE, group |-> <<>>]

\* disposition.match(/filename\*=UTF-8''(.+)/i): the leftmost place where
\* the tag stands with at least one character after it; the group runs to
\* the end of the header value (a header value holds no line break)
Utf8Match(disposition) ==
  LET tag == FILENAME_STAR \o UTF8_TAG
      at == {p \in 1..Len(disposition) :
               /\ MatchesAt(disposition, tag, p)
               /\ p + Len(tag) <= Len(disposition)}
  IN IF at = {} THEN NoMatch
     ELSE [found |-> TRUE,
           group |-> Rest(disposition, SetMin(at) + Len(tag))]

\* the longest start of str made of characters outside stop: [^";\n]+
RECURSIVE TakeOutside(_, _)
TakeOutside(str, stop) ==
  IF str = <<>> \/ Head(str) \in stop THEN <<>>
  ELSE <<Head(str)>> \o TakeOutside(Tail(str), stop)

\* where the group of /filename="?([^";\n]+)"?/i starts for a match at p:
\* behind the quote when one follows the equals sign
PlainGroupAt(disposition, p) ==
  LET q == p + Len(FILENAME_EQ) IN
  IF q <= Len(disposition) /\ disposition[q] = DQUOTE THEN q + 1 ELSE q

\* disposition.match(/filename="?([^";\n]+)"?/i)
PlainMatch(disposition) ==
  LET stop == {DQUOTE, ";", "\n"}
      at == {p \in 1..Len(disposition) :
               /\ MatchesAt(disposition, FILENAME_EQ, p)
               /\ TakeOutside(Rest(disposition, PlainGroupAt(disposition, p)),
                              stop) # <<>>}
  IN IF at = {} THEN NoMatch
     ELSE [found |-> TRUE,
           group |-> TakeOutside(
                       Rest(disposition, PlainGroupAt(disposition, SetMin(at))),
                       stop)]

\* String.prototype.trim for the blank
RECURSIVE TrimStart(_)
TrimStart(str) ==
  IF str # <<>> /\ Head(str) = " " THEN TrimStart(Tail(str)) ELSE str

RECURSIVE TrimEnd(_)
TrimEnd(str) ==
  IF str # <<>> /\ str[Len(str)] = " "
  THEN TrimEnd(SubSeq(str, 1, Len(str) - 1)) ELSE str

Trim(str) == TrimEnd(TrimStart(str))

\* what a call gives back: a name, or an exception
Returned(name) == [threw |-> FALSE, name |-> name]
Threw == [threw |-> TRUE, name |-> <<>>]

\* the ASCII character of an escape %h1h2, "" when the model has none
Unescape(h1, h2) ==
  CASE h1 = "2" /\ h2 = "0" -> " "
    [] h1 = "3" /\ h2 = "B" -> ";"
    [] h1 = "2" /\ h2 = "2" -> DQUOTE
    [] OTHER -> ""

\* decodeURIComponent(str): %XX escapes become characters, %C3%A9 (two
\* bytes of UTF-8) becomes U+00E9, a malformed escape throws URIError
RECURSIVE decodeURIComponent(_)
decodeURIComponent(str) ==
  IF str = <<>> THEN Returned(<<>>)
  ELSE IF Head(str) # "%"
  THEN LET rest == decodeURIComponent(Tail(str)) IN
       IF rest.threw THEN Threw ELSE Returned(<<Head(str)>> \o rest.name)
  ELSE IF Len(str) >= 6 /\ SubSeq(str, 1, 6) = <<"%", "C", "3", "%", "A", "9">>
  THEN LET rest == decodeURIComponent(Rest(str, 7)) IN
       IF rest.threw THEN Threw ELSE Returned(<<"eacute">> \o rest.name)
  ELSE IF Len(str) >= 3 /\ Unescape(str[2], str[3]) # ""
  THEN LET rest == decodeURIComponent(Rest(str, 4)) IN
       IF rest.threw THEN Threw
       ELSE Returned(<<Unescape(str[2], str[3])>> \o rest.name)
  ELSE Threw

\* suggestedName.replace(/[<>:"/\\|?*]/g, '').trim()
Illegal == {"<", ">", ":", DQUOTE, "/", "\\", "|", "?", "*"}
Sanitize(suggestedName) ==
  Trim(SelectSeq(suggestedName, LAMBDA c : c \notin Illegal))

\* extMap[ct] || '.mp4'
ExtOf(ct) ==
  CASE ct = "video/mp4" -> <<".", "m", "p", "4">>
    [] ct = "video/webm" -> <<".", "w", "e", "b", "m">>
    [] ct = "video/x-matroska" -> <<".", "m", "k", "v">>
    [] ct = "audio/mpeg" -> <<".", "m", "p", "3">>
    [] ct = "audio/mp4" -> <<".", "m", "4", "a">>
    [] ct = "application/zip" -> <<".", "z", "i", "p">>
    [] ct = "image/jpeg" -> <<".", "j", "p", "g">>
    [] ct = "image/png" -> <<".", "p", "n", "g">>
    [] ct = "image/webp" -> <<".", "w", "e", "b", "p">>
    [] OTHER -> <<".", "m", "p", "4">>

\* str.endsWith(suffix)
EndsWith(str, suffix) ==
  /\ Len(suffix) <= Len(str)
  /\ SubSeq(str, Len(str) - Len(suffix) + 1, Len(str)) = suffix

\* a derivation that numbers the names it gives out after the first one
parseFilenameNumbered(disposition, suggestedName, contentType, downloadId) ==
  IF nameCall.calls = 0
  THEN Returned(downloadId \o ExtOf(contentType))
  ELSE Returned(downloadId \o <<"-", "1">> \o ExtOf(contentType))

\* a derivation that appends the extension to every title
parseFilenameAppends(disposition, suggestedName, contentType, downloadId) ==
  LET utf8Match == Utf8Match(disposition)
      match == PlainMatch(disposition)
      safe == Sanitize(suggestedName)
      ext == ExtOf(contentType)
  IN IF disposition # <<>> /\ utf8Match.found
     THEN decodeURIComponent(utf8Match.group)
     ELSE IF disposition # <<>> /\ match.found
     THEN Returned(Trim(match.group))
     ELSE IF suggestedName # <<>> /\ safe # <<>>
     THEN Returned(safe \o ext)
     ELSE Returned(downloadId \o ext)

\* parseFilenameFromResponse(response, suggestedName, downloadId), response
\* being its two headers; an absent header, title or id is <<>> / ""
parseFilenameFromResponse(disposition, suggestedName, contentType, downloadId) ==
  LET utf8Match == Utf8Match(disposition)
      match == PlainMatch(disposition)
      safe == Sanitize(suggestedName)
      ext == ExtOf(contentType)
  IN IF disposition # <<>> /\ utf8Match.found
     THEN decodeURIComponent(utf8Match.group)
     ELSE IF disposition # <<>> /\ match.found
     THEN Returned(Trim(match.group))
     ELSE IF suggestedName # <<>> /\ safe # <<>>
     THEN Returned(IF ~EndsWith(safe, ext) THEN safe \o ext ELSE safe)
     ELSE Returned(downloadId \o ext)

\* ---- the responses and titles the derivation is run on
\* file names a server gives: plain ASCII, with a blank, with U+00E9
AsciiNames == {<<"a">>, <<"a", " ", "b">>}
FileNames == AsciiNames \cup {<<"eacute">>}

\* encodeURIComponent / RFC 5987 value of a name
RECURSIVE PercentEncode(_)
PercentEncode(name) ==
  IF name = <<>> THEN <<>>
  ELSE (CASE Head(name) = " " -> <<"%", "2", "0">>
          [] Head(name) = "eacute" -> <<"%", "C", "3", "%", "A", "9">>
          [] OTHER -> <<Head(name)>>) \o PercentEncode(Tail(name))

\* the parameters of a Content-Disposition header (RFC 6266)
PlainParam(name, quoted) ==
  FILENAME_EQ \o (IF quoted THEN <<DQUOTE>> \o name \o <<DQUOTE>> ELSE name)
ExtParam(name, tag) == FILENAME_STAR \o tag \o PercentEncode(name)

\* a header: absent (given FALSE), without file name, or with the plain
\* form, the UTF-8 form or both, in either order
Headers ==
  {[given |-> FALSE, plain |-> <<>>, ext |-> <<>>, quoted |-> FALSE,
    extFirst |-> FALSE, tag |-> UTF8_TAG]}
  \cup [given : {TRUE}, plain : AsciiNames \cup {<<>>},
        ext : FileNames \cup {<<>>}, quoted : BOOLEAN, extFirst : BOOLEAN,
        tag : {UTF8_TAG, UTF8_TAG_LOWER}]

\* the header value of h as the server writes it, <<>> when there is none
HeaderValue(h) ==
  LET plain == IF h.plain = <<>> THEN <<>>
               ELSE <<";", " ">> \o PlainParam(h.plain, h.quoted)
      ext == IF h.ext = <<>> THEN <<>>
             ELSE <<";", " ">> \o ExtParam(h.ext, h.tag)
  IN IF ~h.given THEN <<>>
     ELSE ATTACHMENT \o (IF h.extFirst THEN ext \o plain ELSE plain \o ext)

\* titles: none, plain, with a character to strip, nothing left after
\* stripping, already ending in .mp4, ending in .mp4 twice
Titles ==
  {<<>>, <<"t">>, <<" ", "t", ":", "x">>, <<"?">>,
   <<"t", ".", "m", "p", "4">>,
   <<"t", ".", "m", "p", "4", ".", "m", "p", "4">>}

ContentTypes == {"", "video/mp4", "video/webm", "audio/mpeg", "text/html"}
DownloadIds == {<<"i", "d">>}

\* streamToDirectory derives the name of a response for the first time
ParseFilenameFirst ==
  /\ nameCall.calls = 0
  /\ \E h \in Headers, title \in Titles, ct \in ContentTypes,
        id \in DownloadIds :
       LET out == parseFilenameFromResponse(HeaderValue(h), title, ct, id) IN
       nameCall' = [header |-> h, disposition |-> HeaderValue(h),
                    suggestedName |-> title, contentType |-> ct,
                    downloadId |-> id, calls |-> 1, out |-> out,
                    first |-> out]
  /\ UNCHANGED <<fsApi, idb, saved, loadOut, sd, page>>

\* the same response, title and id again
ParseFilenameAgain ==
  /\ nameCall.calls = 1
  /\ nameCall' =
       [nameCall EXCEPT
          !.calls = 2,
          !.out = parseFilenameFromResponse(
                    nameCall.disposition, nameCall.suggestedName,
                    nameCall.contentType, nameCall.downloadId)]
  /\ UNCHANGED <<fsApi, idb, saved, loadOut, sd, page>>

\* -------------------------------------------------------------- api client
\* the requests followed: the two calls of login() and the call of the
\* AuthProvider effect
Callers == {"login", "me", "effect"}

\* what one attempt ends with: the status of the response, NoResponse when
\* there is none (network error, timeout)
NoResponse == 0
Statuses == {NoResponse, 200, 401, 500}

NoRequest ==
  [pc |-> "idle", attempts |-> 0, retried |-> FALSE, outcome |-> "none",
   status |-> -1]

\* api(config): the first attempt goes out
Sent == [NoRequest EXCEPT !.pc = "sent", !.attempts = 1]

\* an interceptor that retries every failure it has not retried yet
RetriesAnyError(q, status) == ~q.retried

\* if (!error.response && !config._retried)
Retries(q, status) == status = NoResponse /\ ~q.retried

\* the response interceptor on the answer to an attempt of request q: the
\* response is passed on, the attempt is repeated with _retried set, or the
\* error is rejected to the caller
Intercepted(q, status) ==
  CASE status = 200 ->
         [q EXCEPT !.pc = "done", !.outcome = "ok", !.status = status]
    [] status # 200 /\ Retries(q, status) ->
         [q EXCEPT !.retried = TRUE, !.attempts = @ + 1, !.status = status]
    [] OTHER ->
         [q EXCEPT !.pc = "done", !.status = status,
                   !.outcome = IF status = NoResponse THEN "network"
                               ELSE "http"]

\* if (error.response?.status === 401): both entries are removed and the
\* window is sent to /login
Forgotten == [token |-> "none", user |-> "none", leaving |-> TRUE]

\* the browser after the interceptor ran on an answer that left q as after
AfterAnswer(after, status) ==
  IF after.pc = "done" /\ status = 401 THEN Forgotten ELSE browser

\* ------------------------------------------------------------ AuthContext
\* the access tokens the server hands out
Tokens == {"t1", "t2"}

\* const isAuthenticated = !!token
isAuthenticated == auth.token # "none"

\* the useState initialisers of AuthProvider: user and token are read from
\* localStorage
AuthState(b) ==
  [token |-> b.token, user |-> b.user, loading |-> FALSE, call |-> "idle",
   success |-> FALSE, from |-> "none"]

\* useEffect(..., [token]): if (token && !user) api.get('/auth/me')
EffectRequest(token, user, q) ==
  IF token # "none" /\ user = "none" THEN Sent ELSE q

\* the provider after it mounted in browser b
Mounted(b) ==
  /\ browser = b
  /\ auth = AuthState(b)
  /\ http = [c \in Callers |->
               IF c = "effect" THEN EffectRequest(b.token, b.user, NoRequest)
               ELSE NoRequest]

\* the pages behind ProtectedRoute run signed in
SignedIn == Mounted([token |-> "t1", user |-> "u", leaving |-> FALSE])

\* login(email, password) up to its first await; the submit button is
\* disabled while loading.  A new call waits for the request of the effect
\* to be answered, so that one request of each caller is followed.
login ==
  /\ ~auth.loading /\ http["effect"].pc # "sent"
  /\ auth' = [auth EXCEPT !.loading = TRUE, !.call = "post",
                          !.success = FALSE, !.from = auth.token]
  /\ http' = [http EXCEPT !["login"] = Sent, !["me"] = NoRequest]
  /\ UNCHANGED <<browser, dl, eng>>

\* login after await api.post('/auth/login'): the token t of the response is
\* stored and set, the profile request goes out, and the render that follows
\* runs the effect for the new token; a rejection goes to catch and finally
LoginPost(after, status, t) ==
  IF after.outcome = "ok"
  THEN /\ browser' = [browser EXCEPT !.token = t]
       /\ auth' = [auth EXCEPT !.token = t, !.call = "me"]
       /\ http' = [http EXCEPT
                     !["login"] = after,
                     !["me"] = Sent,
                     !["effect"] = IF t # auth.token
                                   THEN EffectRequest(t, auth.user, @)
                                   ELSE @]
  ELSE /\ browser' = AfterAnswer(after, status)
       /\ auth' = [auth EXCEPT !.call = "returned", !.success = FALSE,
                               !.loading = FALSE]
       /\ http' = [http EXCEPT !["login"] = after]

\* an attempt of the login request is answered
LoginPostAnswer ==
  /\ http["login"].pc = "sent"
  /\ \E status \in Statuses, t \in Tokens :
       LET after == Intercepted(http["login"], status) IN
       IF after.pc = "sent"
       THEN /\ http' = [http EXCEPT !["login"] = after]
            /\ UNCHANGED <<browser, auth>>
       ELSE LoginPost(after, status, t)
  /\ UNCHANGED <<dl, eng>>

\* login after await api.get('/auth/me'): the profile is stored and set and
\* { success: true } returned; a rejection goes to catch, which returns
\* { success: false, ... }; finally setLoading(false)
LoginMeAnswer ==
  /\ http["me"].pc = "sent"
  /\ \E status \in Statuses :
       LET after == Intercepted(http["me"], status) IN
       /\ http' = [http EXCEPT !["me"] = after]
       /\ IF after.pc = "sent" THEN UNCHANGED <<browser, auth>>
          ELSE IF after.outcome = "ok"
          THEN /\ browser' = [browser EXCEPT !.user = "u"]
               /\ auth' = [auth EXCEPT !.user = "u", !.call = "returned",
                                       !.success = TRUE, !.loading = FALSE]
          ELSE /\ browser' = AfterAnswer(after, status)
               /\ auth' = [auth EXCEPT !.call = "returned",
                                       !.success = FALSE, !.loading = FALSE]
  /\ UNCHANGED <<dl, eng>>

\* the request of the effect is answered: .then stores and sets the
\* profile, .catch(() => logout()) removes both entries and clears the state
EffectAnswer ==
  /\ http["effect"].pc = "sent"
  /\ \E status \in Statuses :
       LET after == Intercepted(http["effect"], status) IN
       /\ http' = [http EXCEPT !["effect"] = after]
       /\ IF after.pc = "sent" THEN UNCHANGED <<browser, auth>>
          ELSE IF after.outcome = "ok"
          THEN /\ browser' = [browser EXCEPT !.user = "u"]
               /\ auth' = [auth EXCEPT !.user = "u"]
          ELSE /\ browser' = [AfterAnswer(after, status) EXCEPT
                                !.token = "none", !.user = "none"]
               /\ auth' = [auth EXCEPT !.token = "none", !.user = "none"]
  /\ UNCHANGED <<dl, eng>>

\* logout(), from the Logout button of the navigation bar
logout ==
  /\ isAuthenticated
  /\ browser' = [browser EXCEPT !.token = "none", !.user = "none"]
  /\ auth' = [auth EXCEPT !.token = "none", !.user = "none"]
  /\ UNCHANGED <<http, dl, eng>>

\* window.location.href = '/login' takes effect: the document is loaded
\* anew, the requests of the old one are gone, the provider mounts again
Reload ==
  /\ browser.leaving
  /\ browser' = [browser EXCEPT !.leaving = FALSE]
  /\ auth' = AuthState(browser')
  /\ http' = [c \in Callers |->
                IF c = "effect"
                THEN EffectRequest(browser'.token, browser'.user, NoRequest)
                ELSE NoRequest]
  /\ UNCHANGED <<dl, eng>>

\* ------------------------------------------------------------ batch tally
\* const isBatchDone = batchProgress?.status === 'done'
isBatchDone == batchProgress.status = "done"

\* a failedCount that forgets the failed entries once the batch is done
failedCountNone ==
  IF batchProgress.status = "done" THEN batchProgress.failed - batchProgress.failed
  ELSE batchProgress.failed

\* const failedCount = batchProgress?.failed?.length || 0
failedCount == batchProgress.failed

\* the number in "Successfully downloaded N of total shorts."
ShownSuccessCount == batchProgress.completed - failedCount

\* the total in "Successfully downloaded N of total shorts."
ShownTotal == batchProgress.total

\* ---------------------------------------------------------- specifications
\* discovery and selection on a page that starts no job
NextDiscovery ==
  \/ handleGetInfo
  \/ GetInfoFail
  \/ GetInfoVideo
  \/ GetInfoCarousel
  \/ GetInfoChannel
  \/ handleLoadMore
  \/ LoadMoreOk
  \/ LoadMoreFail
  \/ \E v \in VideoIds : ItemClick(v)
  \/ selectAll
  \/ deselectAll
  \/ \E i \in 0..(MaxMedia - 1) : toggleItemSelect(i)

InitDiscovery == InitPage /\ SignedIn /\ fsApi = FALSE /\ watch = "none"
InitSelection == InitPage /\ SignedIn /\ fsApi = FALSE /\ watch = "selection"

SpecDiscovery == InitDiscovery /\ [][NextDiscovery]_vars
SpecSelection == InitSelection /\ [][NextDiscovery]_vars

\* the selection functions called with any id, listed or not
NextSelectionCalls ==
  \/ NextDiscovery
  \/ \E v \in VideoIds : toggleSelect(v)

SpecSelectionCalls == InitSelection /\ [][NextSelectionCalls]_vars

\* discovery and selection together with the start of batch jobs; the
\* creation calls are rejected, so that the next batch can be started
InitRequest == InitPage /\ SignedIn /\ fsApi = FALSE /\ watch = "request"

NextRequest ==
  \/ NextDiscovery
  \/ handleDownloadAll
  \/ handleDownloadAllNothing
  \/ \E j \in JobIds : CreateFail(j)

SpecRequest == InitRequest /\ [][NextRequest]_vars

\* downloadHelper on its own: the settings page saves and clears the
\* handle, deliveries run one after the other
InitEngine == InitPage /\ SignedIn /\ fsApi \in BOOLEAN /\ watch = "none"

NextEngine ==
  \/ \E h \in HandleIds : saveDirectoryHandle(h)
  \/ clearDirectoryHandle
  \/ SettingsLoad
  \/ smartDownload
  \/ SdLoad
  \/ SdQuery
  \/ SdRequest
  \/ SdFetch
  \/ SdGetFile
  \/ SdWritable
  \/ SdPipe

SpecEngine == InitEngine /\ [][NextEngine]_vars

\* the file name derivation on its own
NextFilename ==
  \/ ParseFilenameFirst
  \/ ParseFilenameAgain

SpecFilename == InitEngine /\ [][NextFilename]_vars

\* the api client and the AuthProvider on their own: the application is
\* opened signed out, signed in, or with a token and no stored profile
Browsers ==
  {[token |-> "none", user |-> "none", leaving |-> FALSE],
   [token |-> "t1", user |-> "u", leaving |-> FALSE],
   [token |-> "t1", user |-> "none", leaving |-> FALSE]}

InitSession ==
  /\ InitPage /\ fsApi = FALSE /\ watch = "none"
  /\ \E b \in Browsers : Mounted(b)

NextSession ==
  \/ login
  \/ LoginPostAnswer
  \/ LoginMeAnswer
  \/ EffectAnswer
  \/ logout
  \/ Reload

SpecSession == InitSession /\ [][NextSession]_vars

\* The job controller runs on a page whose discovery has settled.  A page
\* shows the batch list next to a single video (or a carousel) when the
\* answer of a load-more issued for the previous query arrives after the
\* reset of the next query: the list is then the page past the old offset.
SettledVideo ==
  /\ videoInfo = TRUE /\ carouselInfo = 0 /\ selectedItemIds = {}

SettledCarousel ==
  /\ videoInfo = FALSE /\ carouselInfo = MaxMedia
  /\ selectedItemIds = 0..(MaxMedia - 1)

InitSettled ==
  /\ loading = FALSE /\ error = "" /\ downloading = FALSE /\ message = "null"
  /\ progress = "null" /\ hasMore = FALSE /\ loadingMore = FALSE
  /\ batchDownloading = FALSE /\ batchProgress = NullBatch
  /\ SettledVideo \/ SettledCarousel
  /\ shorts = Page(1, MaxItems - 1) /\ selectedIds = SeqToSet(shorts)
  /\ eventSourceRef = NoJob /\ activeDownloadId = NoJob
  /\ deliveredIdsRef = {}
  /\ kind = [j \in JobIds |-> "single"]
  /\ phase = [j \in JobIds |-> "unused"]
  /\ es = [j \in JobIds |-> "none"]
  /\ nextJob = 1 /\ stops = [j \in JobIds |-> 0] /\ timers = 0
  /\ infoCall = "idle" /\ moreCall = -1
  /\ smartCalls = [j \in JobIds |-> [a \in ArtifactIds |-> 0]]
  /\ repeated = {} /\ superseded = {}
  /\ stopWhileOpen = {} /\ stopWhileReq = {} /\ lateEvents = {}
  /\ terminalSeen = {} /\ afterTerminal = {} /\ badJson = {}
  /\ errHandled = [j \in JobIds |-> 0]
  /\ failed = {} /\ silentFail = {}
  /\ hist = <<>> /\ pending = 0
  /\ mounted = TRUE /\ cancelSent = {}
  /\ InitHelper /\ fsApi = FALSE
  /\ SignedIn

Init == InitSettled /\ watch = "none"
InitDelivery == InitSettled /\ watch = "delivery"
InitStreams == InitSettled /\ watch = "streams"
InitCancel == InitSettled /\ watch = "cancel"
InitJson == InitSettled /\ watch = "json"
InitFailure == InitSettled /\ watch = "failure"
InitTally == InitSettled /\ watch = "tally"
InitSettle == InitSettled /\ watch = "settle"

Next ==
  \/ handleDownload
  \/ handleDownloadCarousel
  \/ handleDownloadAll
  \/ \E j \in JobIds : CreateOk(j)
  \/ \E j \in JobIds : CreateFail(j)
  \/ \E j \in JobIds : BadMessage(j)
  \/ \E j \in JobIds : ProgressMessage(j)
  \/ \E j \in JobIds : CarouselMessage(j)
  \/ \E j \in JobIds : BatchMessage(j)
  \/ \E j \in JobIds : ProgressError(j)
  \/ \E j \in JobIds : BatchError(j)
  \/ TimerFire
  \/ handleStop
  \/ \E j \in JobIds : StopResume(j)

\* the deliveries the handlers start are followed until they settle
NextSettle ==
  \/ Next
  \/ SmartDownloadSettles

Spec == Init /\ [][Next]_vars

\* the job controller on a page the user may leave
NextUnmount ==
  \/ Next
  \/ Unmount

SpecUnmount == Init /\ [][NextUnmount]_vars

\* the job controller with the cancel requests it sends recorded
InitSent == InitSettled /\ watch = "sent"
SpecSent == InitSent /\ [][Next]_vars
SpecDelivery == InitDelivery /\ [][Next]_vars
SpecSettle == InitSettle /\ [][NextSettle]_vars

\* the job controller together with new queries: Get Info is available
\* again whenever no request and no job is busy
NextReset ==
  \/ Next
  \/ handleGetInfo
  \/ GetInfoFail
  \/ GetInfoVideo
  \/ GetInfoCarousel
  \/ GetInfoChannel

SpecReset == Init /\ [][NextReset]_vars
SpecStreams == InitStreams /\ [][Next]_vars
SpecCancel == InitCancel /\ [][Next]_vars
SpecJson == InitJson /\ [][Next]_vars
SpecFailure == InitFailure /\ [][Next]_vars
SpecTally == InitTally /\ [][Next]_vars


\* ------------------------------------------------------------------ claims
\* C1: within the stream of one batch, carousel or slideshow job, events may
\* repeat entries of completed_downloads, and smartDownload is still called
\* at most once for every distinct download_id of that job.
C1_DeliveredAtMostOnce ==
  \A j \in JobIds, a \in ArtifactIds : smartCalls[j][a] <= 1

\* a job whose stream repeated an id that had been delivered already
C1_RepeatedIdSeen ==
  \E j \in repeated :
    /\ kind[j] \in {"batch", "carousel"}
    /\ \E a \in ArtifactIds : smartCalls[j][a] = 1

\* C2: after handleStop on a job whose stream is open, no event of that
\* stream is processed any more, also while the cancel call has not
\* returned, and once the handler has finished the stream is closed.
C2_NoEventAfterCancel ==
  /\ lateEvents = {}
  /\ PendingStops = 0 => \A j \in stopWhileOpen : es[j] = "closed"

\* C3: a job stopped while its creation call is in flight stays cancelled:
\* no stream is ever opened for it, whatever the creation call answers.
C3_CancelledWhileRequestingOpensNoStream ==
  \A j \in stopWhileReq : es[j] = "none"

\* C4: the success count of the batch done message, completed minus the
\* number of failed entries, is never negative.
C4_ShownCountNeverNegative ==
  isBatchDone => ShownSuccessCount >= 0

\* C5: whatever the interleaving of starts, creation answers, events,
\* transport errors and stops, at most one stream is open, and a stream
\* that was open when another one was opened is closed.
C5_AtMostOneStreamOpen ==
  /\ Cardinality(OpenStreams) <= 1
  /\ \A j \in superseded : es[j] = "closed"

\* a stream was opened while another one was open, and is still open
C5_StreamSuperseded ==
  /\ superseded # {}
  /\ OpenStreams # {}

\* C6: a message that is not JSON is handled as a transport error: the
\* stream is closed and the transport-error handling has run exactly once.
C6_BadJsonIsTransportError ==
  \A j \in badJson : es[j] = "closed" /\ errHandled[j] = 1

\* C7: a transport error on an open stream closes the stream and runs the
\* error handling exactly once (busy flag of the job's flow cleared, error
\* text set); the stream of that job is never open again.
C7_TransportErrorHandledOnce ==
  [][\A j \in JobIds :
       /\ errHandled'[j] <= 1
       /\ errHandled'[j] = 1 => es'[j] = "closed"
       /\ errHandled'[j] > errHandled[j] =>
            /\ error' # ""
            /\ IF kind[j] = "batch" THEN ~batchDownloading'
               ELSE ~downloading']_vars

\* a transport error has been handled
C7_TransportErrorSeen ==
  \E j \in JobIds : errHandled[j] = 1 /\ es[j] = "closed"

\* C8: the processing of an event with status done or error closes the
\* stream and clears eventSourceRef, and nothing of that stream (event or
\* transport error) is handled afterwards.
C8_TerminalEventEndsStream ==
  [][\A j \in JobIds :
       /\ j \in terminalSeen' => es'[j] = "closed"
       /\ (j \in terminalSeen' /\ j \notin terminalSeen) =>
            eventSourceRef' = NoJob
       /\ j \notin afterTerminal'
       /\ errHandled'[j] > errHandled[j] => j \notin terminalSeen]_vars

\* a terminal event has been processed
C8_TerminalEventSeen ==
  \E j \in terminalSeen : es[j] = "closed" /\ eventSourceRef = NoJob

\* C9: a rejected creation call sets a non-empty error text, clears the
\* busy flag and the provisional progress of its flow and touches no
\* stream; no stream is ever opened for the rejected request.
C9_CreationFailureOpensNoStream ==
  [][\A j \in JobIds :
       /\ phase'[j] = "rejected" => es'[j] = "none"
       /\ (phase[j] = "requesting" /\ phase'[j] = "rejected") =>
            /\ error' # ""
            /\ es' = es /\ eventSourceRef' = eventSourceRef
            /\ IF kind[j] = "batch"
               THEN ~batchDownloading' /\ batchProgress' = NullBatch
               ELSE ~downloading' /\ progress' = "null"]_vars

\* a creation call has been rejected
C9_CreationRejected ==
  \E j \in JobIds : phase[j] = "rejected" /\ error # ""

\* C10: every job that ends Failed (creation rejected, event with status
\* error, transport error) leaves a non-empty error text on the page.
C10_FailedJobShowsError ==
  \A j \in failed : j \notin silentFail

\* C11: with the File System Access API present and a handle stored, a
\* denied permission verification ends the invocation with one browser
\* download and the result { method: 'browser' }; nothing is thrown and no
\* file is created in the directory.
C11_DeniedFallsBack ==
  (fsApi /\ sd.pc = "done" /\ sd.handle # NoHandle /\ sd.verify = "denied") =>
    /\ sd.result = "browser"
    /\ sd.browserDownloads = 1
    /\ ~sd.fileCreated

\* an invocation that ended after the user denied the permission request
C11_DeniedSeen ==
  /\ fsApi /\ sd.pc = "done" /\ sd.handle # NoHandle
  /\ sd.requestOut = "denied" /\ sd.verify = "denied"
  /\ sd.result = "browser"

\* C12: whatever the outcomes of the delivery steps, smartDownload resolves:
\* with 'fs-api' exactly when the file was written, otherwise with 'browser'
\* after one browser download; it never rejects.
C12_AlwaysResolves ==
  sd.pc = "done" =>
    /\ sd.result \in {"fs-api", "browser"}
    /\ sd.result = "fs-api" <=> sd.fileWritten
    /\ sd.result = "browser" => sd.browserDownloads = 1

\* C13: one invocation triggers the browser download at most once, and
\* never after it created a file in the chosen directory.
C13_PlacedExactlyOnce ==
  /\ sd.browserDownloads <= 1
  /\ ~(sd.browserDownloads >= 1 /\ sd.fileCreated)

\* the selection operation made last
LastOp == hist[Len(hist)]

\* C14: load-more appends its page to the list, selects every item of the
\* page and leaves every item loaded before selected or not as it was.
C14_LoadMoreAppendsAndSelects ==
  (hist # <<>> /\ LastOp.op = "load") =>
    /\ Len(shorts) >= Len(LastOp.items)
    /\ SubSeq(shorts, 1, Len(LastOp.items)) = LastOp.items
    /\ \A i \in (Len(LastOp.items) + 1)..Len(shorts) : shorts[i] \in selectedIds
    /\ \A v \in SeqToSet(LastOp.items) :
         v \in selectedIds <=> v \in LastOp.sel

C16_SelectionWithinLoaded ==
  /\ selectedIds \subseteq SeqToSet(shorts)
  /\ selectedCount <= Len(shorts)

\* a load-more answer arrived after the reset of the next query, whose own
\* answer is still awaited
C16_AnswerAfterReset ==
  /\ loading /\ infoCall = "first"
  /\ shorts # <<>> /\ selectedIds # {}

\* C17: selectAll makes the selection the ids of all loaded items,
\* deselectAll makes it empty, whatever it was before.
C17_SelectAllDeselectAll ==
  hist # <<>> =>
    /\ LastOp.op = "selectAll" => selectedIds = SeqToSet(shorts)
    /\ LastOp.op = "deselectAll" => selectedIds = {}

\* selectAll on a partly selected list, then deselectAll
C17_SelectAllThenDeselectAll ==
  /\ Len(hist) = 2
  /\ hist[1].op = "selectAll" /\ hist[1].sel # SeqToSet(hist[1].items)
  /\ hist[2].op = "deselectAll" /\ hist[2].sel = SeqToSet(shorts)
  /\ selectedIds = {}

\* C18: two toggles of the same id in a row give back the selection the
\* first one started from, for listed and unlisted ids alike.
C18_ToggleTwiceRestores ==
  (/\ Len(hist) = 2
   /\ hist[1].op = "toggle" /\ hist[2].op = "toggle"
   /\ hist[1].arg = hist[2].arg) => selectedIds = hist[1].sel

\* the same id toggled twice, first off and then on again
C18_ToggledTwice ==
  /\ Len(hist) = 2
  /\ hist[1].op = "toggle" /\ hist[2].op = "toggle"
  /\ hist[1].arg = hist[2].arg
  /\ hist[1].arg \in hist[1].sel /\ hist[1].arg \notin hist[2].sel
  /\ hist[1].arg \in selectedIds

\* C19: verifyHandlePermission gives true on a granted query without a
\* request; otherwise it requests once and gives true exactly when the
\* request is granted; a throwing query or request gives false, and nothing
\* is thrown on to smartDownload.
C19_VerifyPermission ==
  /\ sd.requests <= 1
  /\ sd.verify # "none" =>
       /\ sd.result # "rejected"
       /\ sd.queryOut = "granted" =>
            sd.verify = "granted" /\ sd.requests = 0
       /\ sd.queryOut \in {"denied", "prompt"} =>
            /\ sd.requests = 1
            /\ sd.verify = "granted" <=> sd.requestOut = "granted"
       /\ sd.queryOut = "throw" =>
            sd.verify = "denied" /\ sd.requests = 0

\* the query did not say granted, the one request did
C19_GrantedOnRequest ==
  /\ sd.queryOut = "prompt" /\ sd.requests = 1
  /\ sd.requestOut = "granted" /\ sd.verify = "granted"

\* C20: after any saves and clears every load returns, and what it returns
\* is the handle saved last, absent after a clear; the store holds at most
\* one handle.
C20_LoadReturnsLastSaved ==
  /\ Cardinality(idb) <= 1
  /\ loadOut.state # "none" =>
       loadOut.state = "returned" /\ loadOut.value = saved

\* C21: when the event that ends a batch job has status done, the page shows
\* the batch panel with the done message, whose numbers are those of that
\* event: completed minus the number of failed entries, of total.
C21_DoneShowsTally ==
  [][(/\ hist' # hist
      /\ hist'[1].op = "event" /\ hist'[1].status = "done"
      /\ kind[hist'[1].job] = "batch") =>
       /\ batchProgress'.status # "null"
       /\ isBatchDone'
       /\ ShownSuccessCount' = hist'[1].completed - hist'[1].failed
       /\ ShownTotal' = hist'[1].total]_vars

\* a batch ended done with one failed entry and one item downloaded
C21_PartialTallyShown ==
  /\ hist # <<>> /\ hist[1].op = "event" /\ hist[1].status = "done"
  /\ kind[hist[1].job] = "batch"
  /\ hist[1].failed = 1 /\ hist[1].completed = MaxCount
  /\ isBatchDone /\ ShownSuccessCount = MaxCount - 1
  /\ ShownTotal = hist[1].total

\* the file name the header of the last call gives: the UTF-8 form when it
\* has one, else the plain form, <<>> when it has neither
GivenName ==
  IF ~nameCall.header.given THEN <<>>
  ELSE IF nameCall.header.ext # <<>> THEN nameCall.header.ext
  ELSE nameCall.header.plain

\* C22: the derived name is the file name the Content-Disposition header
\* gives (its UTF-8 form decoded, before its plain form); without one, the
\* sanitized title with the extension of the content type (not doubled);
\* without a usable title, the download id with that extension; a content
\* type outside the table counts as .mp4.
C22_NameByPriority ==
  nameCall.calls >= 1 =>
    LET safe == Sanitize(nameCall.suggestedName)
        ext == ExtOf(nameCall.contentType)
    IN /\ ~nameCall.out.threw
       /\ nameCall.out.name =
            IF GivenName # <<>> THEN GivenName
            ELSE IF safe # <<>>
            THEN (IF EndsWith(safe, ext) THEN safe ELSE safe \o ext)
            ELSE nameCall.downloadId \o ext
       /\ (GivenName = <<>> /\ nameCall.contentType \in {"", "text/html"}) =>
            EndsWith(nameCall.out.name, <<".", "m", "p", "4">>)

StopEnds == PendingStops' < PendingStops \/ hist' # hist

\* C24: whether the cancel request succeeds or fails, when handleStop ends
\* the referenced stream is closed and no stream is open, eventSourceRef and
\* activeDownloadId are cleared, both busy flags are off and both progress
\* values are null.
C24_CancelCleansUp ==
  [][StopEnds =>
       /\ eventSourceRef # NoJob => es'[eventSourceRef] = "closed"
       /\ OpenStreams' = {}
       /\ eventSourceRef' = NoJob /\ activeDownloadId' = NoJob
       /\ ~downloading' /\ ~batchDownloading'
       /\ progress' = "null" /\ batchProgress' = NullBatch]_vars

\* the cancel request for a job with an open stream failed, the cleanup ran
C24_CancelFailedCleanedUp ==
  /\ hist # <<>> /\ hist[1].op = "stop" /\ ~hist[1].ok
  /\ hist[1].id \in stopWhileOpen /\ es[hist[1].id] = "closed"
  /\ eventSourceRef = NoJob /\ activeDownloadId = NoJob
  /\ ~downloading /\ ~batchDownloading

\* C25: when handleStop ends, the set of delivered ids is empty.
C25_CancelClearsSeenSet ==
  [][StopEnds => deliveredIdsRef' = {}]_vars

\* C26: the controller does not hold the id of a job that has ended: after a
\* done or error event, a transport error or a cancel, activeDownloadId is
\* not that job's id.
C26_EndedJobNotHeld ==
  \A j \in JobIds :
    (j \in terminalSeen \/ errHandled[j] > 0) => activeDownloadId # j

\* C27: when the handler of a batch or carousel event ends, every
\* download_id of the event's completed_downloads is in the seen-set and
\* smartDownload has been called for it, also when the event is the done or
\* error event; no id of a job is delivered twice.
C27_ReportedIsDelivered ==
  /\ hist # <<>> =>
       \A a \in hist[1].ids :
         a \in deliveredIdsRef /\ smartCalls[hist[1].job][a] = 1
  /\ \A j \in JobIds, a \in ArtifactIds :
       kind[j] \in {"batch", "carousel"} => smartCalls[j][a] <= 1

\* the event that ended a batch job brought an id not delivered before
C27_TerminalEventDelivered ==
  /\ hist # <<>> /\ hist[1].new # {}
  /\ kind[hist[1].job] = "batch" /\ hist[1].job \in terminalSeen
  /\ \A a \in hist[1].new : smartCalls[hist[1].job][a] = 1

C29_SeenSetPerJob ==
  [][\A j \in JobIds :
       (es'[j] = "open" /\ kind'[j] \in {"batch", "carousel"}) =>
         /\ es[j] # "open" => deliveredIdsRef' = {}
         /\ \A a \in deliveredIdsRef' : smartCalls'[j][a] >= 1]_vars

\* the second job delivered the id the first job had delivered
C29_SameIdDeliveredByBothJobs ==
  \E a \in ArtifactIds :
    /\ \A j \in JobIds : kind[j] \in {"batch", "carousel"}
                         /\ smartCalls[j][a] = 1
    /\ \E j \in OpenStreams : a \in deliveredIdsRef

\* C30: the reset at the start of handleGetInfo leaves the list and the
\* selection empty, has-more off, both progress values, the message and the
\* video info null and the error text empty.
C30_ResetClears ==
  [][(loading' /\ ~loading) =>
       /\ shorts' = <<>> /\ selectedIds' = {} /\ ~hasMore'
       /\ progress' = "null" /\ batchProgress' = NullBatch
       /\ message' = "null" /\ error' = "" /\ ~videoInfo']_vars

\* a new query was submitted after a job had ended with its message shown
C30_ResetAfterJob ==
  /\ loading /\ infoCall = "first"
  /\ \E j \in terminalSeen : kind[j] = "batch"
  /\ timers > 0
  /\ shorts = <<>> /\ selectedIds = {} /\ message = "null"
  /\ progress = "null" /\ batchProgress = NullBatch

C32_OpenStreamIsBusy ==
  \A j \in OpenStreams :
    IF kind[j] = "batch" THEN batchDownloading ELSE downloading

\* C33: while downloading is set and a single job is being requested or
\* streamed, progress is not null, so that its Stop button is rendered.
C33_BusySingleShowsStop ==
  (/\ downloading
   /\ \E j \in JobIds : /\ kind[j] = "single"
                        /\ phase[j] = "requesting" \/ es[j] = "open") =>
    /\ progress # "null"
    /\ StopShownFor("single")

\* C34: once the page is unmounted no progress stream is open.
C34_NoStreamAfterUnmount ==
  ~mounted => OpenStreams = {}

\* job j is over: its stream handled a done or error event or a transport
\* error
Ended(j) == j \in terminalSeen \/ errHandled[j] > 0

\* C35: no created job is left with its stream closed before a terminal
\* event or a transport error, without a cancel request sent for it and
\* without the controller holding its id for a later cancel.
C35_NoJobAbandoned ==
  \A j \in JobIds :
    (phase[j] = "created" /\ es[j] = "closed" /\ ~Ended(j)) =>
      j \in cancelSent \/ activeDownloadId = j

\* C36: a cancel request never carries the id of a job that is over.
C36_CancelOnlyRunningJob ==
  [][\A j \in JobIds : stops'[j] > stops[j] => ~Ended(j)]_vars

\* the positions of the listed items whose id is selected
SelectedAt(items, sel) == {k \in 1..Len(items) : items[k] \in sel}

\* the i-th smallest member of a set of positions
Nth(S, i) == CHOOSE k \in S : Cardinality({x \in S : x < k}) = i - 1

\* C37: the request handleDownloadAll posts carries the urls of exactly the
\* listed items whose id is selected, in list order; called with none of
\* them selected it posts nothing and leaves the page as it is.
C37_BatchRequestCarriesSelection ==
  [][(hist' # hist /\ hist' # <<>> /\ hist'[1].op = "downloadAll") =>
       LET r == hist'[1]
           at == SelectedAt(r.items, r.sel)
       IN IF at = {}
          THEN /\ ~r.posted
               /\ nextJob' = nextJob /\ phase' = phase
               /\ ui' = ui /\ refs' = refs /\ disc' = disc /\ env' = env
          ELSE /\ r.posted
               /\ nextJob' = nextJob + 1
               /\ phase'[nextJob] = "requesting" /\ kind'[nextJob] = "batch"
               /\ Len(r.video_urls) = Cardinality(at)
               /\ \A i \in 1..Len(r.video_urls) :
                    r.video_urls[i] = Url(r.items[Nth(at, i)])]_vars

\* a batch was requested with the second of two listed items selected
C37_PartSelectionPosted ==
  /\ hist # <<>> /\ hist[1].op = "downloadAll" /\ hist[1].posted
  /\ Len(hist[1].items) = 2
  /\ hist[1].sel = {hist[1].items[2]}
  /\ hist[1].video_urls = <<Url(hist[1].items[2])>>
  /\ batchDownloading

\* this step brought the answer to an attempt of the request of caller c
Answered(c) ==
  http[c].pc = "sent" /\ http'[c] # http[c] /\ http'[c].pc # "idle"

\* C38: a request is attempted at most twice: an attempt that ends without
\* a response is repeated once, and when the repetition fails too the error
\* goes to the caller; an attempt answered with an error status is not
\* repeated, the error goes to the caller in the same step.
C38_RetriedOnce ==
  [][\A c \in Callers :
       /\ http'[c].attempts <= 2
       /\ (Answered(c) /\ http'[c].status \in {401, 500}) =>
            /\ http'[c].pc = "done" /\ http'[c].outcome = "http"
            /\ http'[c].attempts = http[c].attempts
            /\ c \in {"login", "me"} =>
                 auth'.call = "returned" /\ ~auth'.success
       /\ (Answered(c) /\ http'[c].status = NoResponse) =>
            IF http[c].retried
            THEN /\ http'[c].pc = "done" /\ http'[c].outcome = "network"
                 /\ http'[c].attempts = http[c].attempts
            ELSE /\ http'[c].pc = "sent" /\ http'[c].retried
                 /\ http'[c].attempts = http[c].attempts + 1]_vars

\* one request failed twice without a response, another one was answered
\* with an error status at its first attempt
C38_RetriedAndRejected ==
  /\ http["me"].pc = "done" /\ http["me"].outcome = "network"
  /\ http["me"].retried /\ http["me"].attempts = 2
  /\ http["effect"].pc = "done" /\ http["effect"].outcome = "http"
  /\ ~http["effect"].retried /\ http["effect"].attempts = 1

\* C39: a login started signed out that returned { success: false } leaves
\* no token, neither in localStorage nor in the state of the provider, and
\* isAuthenticated is false.
C39_FailedLoginLeavesNoToken ==
  (auth.call = "returned" /\ ~auth.success /\ auth.from = "none") =>
    /\ browser.token = "none"
    /\ auth.token = "none"
    /\ ~isAuthenticated

====
